---- MODULE Spec2Model ----
(***************************************************************************)
(* Chain orchestration engine of onboard_async/chain_tasks.py:             *)
(* ChainTracker (the registry), ChainData, ChainedTasks (the executor)     *)
(* and the HTTP handlers that drive them.                                  *)
(*                                                                         *)
(* A Python dict is a function whose DOMAIN is its key set, so an absent   *)
(* key is absent here too.  An OrderedDict is a sequence of <<key, value>> *)
(* pairs in insertion order.  Python's None is the string "None".          *)
(* datetime.now() reads the logical clock `now`.                           *)
(***************************************************************************)
EXTENDS Integers, Sequences, FiniteSets, TLC

\* ------------------------------------------------------------------ bounds
\* The largest reading of the logical clock.
MaxTime == 1
\* The attempt ceiling (max_attempts) of every task.
MaxAttempts == 2

\* ------------------------------------------------------------ Python values
None == "None"
EmptyDict == [k \in {} |-> None]

Has(d, k) == k \in DOMAIN d
\* dict.get(k, default)
Get(d, k, default) == IF k \in DOMAIN d THEN d[k] ELSE default
\* d[k] = v on a plain dict
DictSet(d, k, v) == [x \in DOMAIN d \cup {k} |-> IF x = k THEN v ELSE d[x]]
\* d.update(u)
DictUpdate(d, u) == u @@ d

\* sum(d[k] for k in keys)
RECURSIVE SumOf(_, _)
SumOf(d, keys) ==
    IF keys = {} THEN 0
    ELSE LET k == CHOOSE x \in keys : TRUE IN d[k] + SumOf(d, keys \ {k})

\* OrderedDict: insertion-ordered <<key, value>> pairs
OrderedKeys(od) == [i \in 1..Len(od) |-> od[i][1]]
OrderedHas(od, k) == \E i \in 1..Len(od) : od[i][1] = k
\* od[k] = v that appends even when the key exists
OrderedSetAppends(od, k, v) == Append(od, <<k, v>>)

\* od[k] = v: an existing key keeps its position, a new key is appended
OrderedSet(od, k, v) ==
    IF OrderedHas(od, k)
    THEN [i \in 1..Len(od) |-> IF od[i][1] = k THEN <<k, v>> ELSE od[i]]
    ELSE Append(od, <<k, v>>)

\* ------------------------------------------------------------ configuration
ChainIds == {"c1", "c2"}
\* the chain whose history the engine specification records
Observed == "c1"
ProjectId == "p1"
\* the payload project_lookup returns with 'Y'
ProjectNumber == "project_number"

\* TASKS: name, max_attempts, required_params, whether on_complete is set, and
\* the shape of what func returns: a (status, data) tuple or a bare status.
\* The attempt ceilings (3, 4 and 5 in the source) are all MaxAttempts here.
TASKS ==
    << [name |-> "project_lookup", max_attempts |-> MaxAttempts,
        required_params |-> <<>>, on_complete |-> TRUE, returns |-> "tuple"],
       [name |-> "vpc_sc_lookup", max_attempts |-> MaxAttempts,
        required_params |-> <<"project_lookup">>, on_complete |-> TRUE,
        returns |-> "bare"],
       [name |-> "shared_vpc_lookup", max_attempts |-> MaxAttempts,
        required_params |-> <<>>, on_complete |-> TRUE, returns |-> "bare"] >>

TaskNames == {TASKS[i].name : i \in 1..Len(TASKS)}
TaskSequence == [i \in 1..Len(TASKS) |-> TASKS[i].name]
IndexOf(t) == CHOOSE i \in 1..Len(TASKS) : TASKS[i].name = t

\* What one call of a task's work function can do: return 'Y' ("Y"), return
\* ('Y', data) ("YData"), return ('Y', None) ("YNone"), return 'N' or
\* ('N', None) ("N"), raise ("Raise"), or return a tuple that does not unpack
\* into (status, data) ("Malformed").
WorkOutcomes == {"Y", "YData", "YNone", "N", "Raise", "Malformed"}
OutcomesOf(task) ==
    IF task.returns = "tuple" THEN {"YData", "YNone", "N", "Raise", "Malformed"}
    ELSE {"Y", "N", "Raise"}

VARIABLES
    now,        \* the wall clock
    chains,     \* ChainTracker._chains: chain_id -> record
    exec,       \* per chain id: the execute_chain coroutine and its ChainedTasks
    held,       \* what a client got from get_chain_status and still refers to
    observed,   \* the chain id whose history is recorded (None: no chain)
    workCalls,  \* history: calls of task.func, per task
    missCalls,  \* history: attempts that ended at a missing required parameter
    okCalls,    \* history: calls of task.func that returned success
    cbCalls     \* history: calls of task.on_complete, per task

vars == <<now, chains, exec, held, observed, workCalls, missCalls, okCalls, cbCalls>>
hist == <<observed, workCalls, missCalls, okCalls, cbCalls>>

\* ---------------------------------------------------------------- ChainTracker
\* start_chain whose coroutine is never awaited: nothing is stored
start_chain_not_awaited(ch, chain_id, task_sequence, t) == ch

start_chain(ch, chain_id, task_sequence, t) ==
    DictSet(ch, chain_id,
        [status |-> "running",
         start_time |-> t,
         current_task |-> None,
         task_sequence |-> task_sequence,
         completed_tasks |-> <<>>,
         total_tasks |-> Len(task_sequence),
         last_updated |-> t,
         attempts |-> EmptyDict])

\* update_attempts that stores 1 instead of adding 1
update_attempts_sets_one(ch, chain_id, task_name) ==
    IF chain_id \in DOMAIN ch
    THEN [ch EXCEPT ![chain_id] =
            DictSet(@, "attempts", DictSet(@.attempts, task_name, 1))]
    ELSE ch

\* update_attempts that makes a record for a chain id it does not know
update_attempts_creates_record(ch, chain_id, task_name) ==
    IF chain_id \in DOMAIN ch
    THEN [ch EXCEPT ![chain_id] =
            DictSet(@, "attempts",
                DictSet(@.attempts, task_name, Get(@.attempts, task_name, 0) + 1))]
    ELSE DictSet(ch, chain_id, [attempts |-> DictSet(EmptyDict, task_name, 1)])

\* update_attempts that counts the attempt in every registered chain
update_attempts_every_chain(ch, chain_id, task_name) ==
    [x \in DOMAIN ch |->
        DictSet(ch[x], "attempts",
            DictSet(ch[x].attempts, task_name,
                    Get(ch[x].attempts, task_name, 0) + 1))]

update_attempts(ch, chain_id, task_name) ==
    IF chain_id \in DOMAIN ch
    THEN [ch EXCEPT ![chain_id] =
            DictSet(@, "attempts",
                DictSet(@.attempts, task_name, Get(@.attempts, task_name, 0) + 1))]
    ELSE ch

complete_task(ch, chain_id, task_name, result, t) ==
    IF chain_id \in DOMAIN ch
    THEN LET rec == ch[chain_id]
             done == OrderedSet(rec.completed_tasks, task_name,
                        [completion_time |-> t,
                         result |-> result,
                         attempts |-> Get(rec.attempts, task_name, 0)])
             rec1 == DictSet(rec, "completed_tasks", done)
         IN  [ch EXCEPT ![chain_id] =
                IF Len(done) = rec.total_tasks
                THEN DictUpdate(rec1, [status |-> "completed", end_time |-> t])
                ELSE rec1]
    ELSE ch

\* fail_chain that does not record failed_task
fail_chain_drops_task(ch, chain_id, error, failed_task, t) ==
    IF chain_id \in DOMAIN ch
    THEN [ch EXCEPT ![chain_id] =
            DictUpdate(@,
                [status |-> "failed",
                 error |-> error,
                 failed_task |-> None,
                 end_time |-> t,
                 attempts_at_failure |-> Get(@.attempts, failed_task, 0)])]
    ELSE ch

\* fail_chain that does not set end_time
fail_chain_no_end_time(ch, chain_id, error, failed_task, t) ==
    IF chain_id \in DOMAIN ch
    THEN [ch EXCEPT ![chain_id] =
            DictUpdate(@,
                [status |-> "failed",
                 error |-> error,
                 failed_task |-> failed_task,
                 attempts_at_failure |-> Get(@.attempts, failed_task, 0)])]
    ELSE ch

fail_chain(ch, chain_id, error, failed_task, t) ==
    IF chain_id \in DOMAIN ch
    THEN [ch EXCEPT ![chain_id] =
            DictUpdate(@,
                [status |-> "failed",
                 error |-> error,
                 failed_task |-> failed_task,
                 end_time |-> t,
                 attempts_at_failure |-> Get(@.attempts, failed_task, 0)])]
    ELSE ch

\* returns the stored dict itself, or None
get_chain_status(ch, chain_id) == Get(ch, chain_id, None)

\* a filter that leaves out failed chains only
get_active_chains_not_failed(ch) ==
    [c \in {x \in DOMAIN ch : ch[x].status # "failed"} |-> ch[c]]

get_active_chains(ch) ==
    [c \in {x \in DOMAIN ch : ch[x].status = "running"} |-> ch[c]]

\* ------------------------------------------------------------------ ChainData
ChainDataSet(data, key, value) == DictSet(data, key, value)
ChainDataGet(data, key) == Get(data, key, None)

\* ---------------------------------------------------------------- ChainedTasks
\* exec[c].pc: "idle" (no coroutine yet), "loop" (at the while test of
\* execute_task), "work" (update_attempts returned), "callback" (complete_task
\* returned), "sleepN" / "sleepE" (in asyncio.sleep on the normal / the except
\* path), "done" (execute_chain returned).
\* what a client holds: nothing, the None that get_chain_status returned, or a
\* reference to the dict stored under `id` (Python returns the object itself)
NoneHeld == [kind |-> "nothing"]
\* a lookup with a default of {}: an unknown id yields an empty dict
ReturnedEmptyDict(ch, chain_id) ==
    IF chain_id \in DOMAIN ch THEN [kind |-> "dict", id |-> chain_id]
    ELSE [kind |-> "empty", id |-> chain_id]
\* `id` is the chain_id the client asked for
Returned(ch, chain_id) ==
    IF chain_id \in DOMAIN ch THEN [kind |-> "dict", id |-> chain_id]
    ELSE [kind |-> get_chain_status(ch, chain_id), id |-> chain_id]
\* the status code of HTTPException in the endpoint
NotFound == 404
\* the endpoint: `if not status` is true of None and of an empty dict
check_chain_status(ch, chain_id) ==
    LET status == Returned(ch, chain_id)
    IN  IF status.kind # "dict" \/ DOMAIN ch[chain_id] = {}
        THEN [code |-> NotFound]
        ELSE [body |-> status]
\* the dict a client holds, as it reads now
View(h) == chains[h.id]

IdleExec ==
    [pc |-> "idle", idx |-> 1, attempts |-> 0, chain_data |-> EmptyDict,
     results |-> <<>>, result_dict |-> None]

\* the first required parameter that ChainData lacks, or None
MissingParam(task, data) ==
    LET rp == task.required_params
        miss == {i \in 1..Len(rp) : ChainDataGet(data, rp[i]) = None}
    IN  IF miss = {} THEN None
        ELSE rp[CHOOSE i \in miss : \A j \in miss : i <= j]

\* **task_params, without project_id
TaskParams(task, data) ==
    [k \in {task.required_params[i] : i \in 1..Len(task.required_params)}
        |-> ChainDataGet(data, k)]

\* an except block that re-raises: the fault leaves execute_task and
\* execute_chain
ExceptPcReraises(attempts, max_attempts) == "raised"

\* the except block of execute_task: sleep unless this was the last attempt
ExceptPc(attempts, max_attempts) ==
    IF attempts < max_attempts THEN "sleepE" ELSE "loop"

\* f"Task {task.name} failed after {attempts} attempts"
ErrorMsg(task, attempts) ==
    <<"Task", task.name, "failed after", attempts, "attempts">>

\* the result_dict of a success
ResultDict(task, attempts, outcome, data) ==
    LET base == [status |-> "Y", task |-> task.name, attempts |-> attempts,
                 project_id |-> ProjectId]
        withData == IF outcome = "Y" THEN base
                    ELSE [data |-> IF outcome = "YData" THEN ProjectNumber ELSE None]
                         @@ base
    IN  TaskParams(task, data) @@ withData

\* what complete_task is given as the result
TrackedResult(outcome) ==
    IF outcome = "Y" THEN [status |-> "Y"]
    ELSE [status |-> "Y",
          data |-> IF outcome = "YData" THEN ProjectNumber ELSE None]

\* execute_chain that goes on to the next task after a task returned 'N'
AfterTaskNoStop(e, result) ==
    [e EXCEPT !.results = IF result.status = "N" THEN @ ELSE Append(@, result),
              !.idx = @ + 1,
              !.attempts = 0,
              !.result_dict = None,
              !.pc = IF e.idx + 1 > Len(TASKS) THEN "done" ELSE "loop"]

\* execute_chain after execute_task returned `result`
AfterTask(e, result) ==
    IF result.status = "N"
    THEN [e EXCEPT !.pc = "done", !.result_dict = None]
    ELSE [e EXCEPT !.results = Append(@, result),
                   !.idx = @ + 1,
                   !.attempts = 0,
                   !.result_dict = None,
                   !.pc = IF e.idx + 1 > Len(TASKS) THEN "done" ELSE "loop"]

\* history of the observed chain: one more event for task t
Bump(f, c, t) == IF c = observed THEN [f EXCEPT ![t] = @ + 1] ELSE f

\* ------------------------------------------------------------------- actions
\* POST /start-chain/{project_id}: a fresh uuid, the record, the coroutine
StartChain(c) ==
    /\ c \notin DOMAIN chains
    /\ exec[c].pc = "idle"
    /\ chains' = start_chain(chains, c, TaskSequence, now)
    /\ exec' = [exec EXCEPT ![c].pc = IF Len(TASKS) = 0 THEN "done" ELSE "loop"]
    /\ UNCHANGED <<now, held, hist>>

\* a loop head that tests attempts <= task.max_attempts
BeginAttemptOffByOne(c) ==
    /\ exec[c].pc = "loop"
    /\ exec[c].attempts <= TASKS[exec[c].idx].max_attempts
    /\ exec' = [exec EXCEPT ![c].attempts = @ + 1, ![c].pc = "work"]
    /\ chains' = update_attempts(chains, c, TASKS[exec[c].idx].name)
    /\ UNCHANGED <<now, held, hist>>

\* while attempts < task.max_attempts: attempts += 1; update_attempts
BeginAttempt(c) ==
    /\ exec[c].pc = "loop"
    /\ exec[c].attempts < TASKS[exec[c].idx].max_attempts
    /\ exec' = [exec EXCEPT ![c].attempts = @ + 1, ![c].pc = "work"]
    /\ chains' = update_attempts(chains, c, TASKS[exec[c].idx].name)
    /\ UNCHANGED <<now, held, hist>>

\* the while test fails: fail_chain, return 'N', execute_chain returns
Exhaust(c) ==
    /\ exec[c].pc = "loop"
    /\ ~(exec[c].attempts < TASKS[exec[c].idx].max_attempts)
    /\ LET task == TASKS[exec[c].idx]
       IN  /\ chains' = fail_chain(chains, c, ErrorMsg(task, exec[c].attempts),
                                   task.name, now)
           /\ exec' = [exec EXCEPT ![c] =
                        AfterTask(@, [status |-> "N", task |-> task.name,
                                      attempts |-> exec[c].attempts])]
    /\ UNCHANGED <<now, held, hist>>

\* a missing parameter that fails the chain at once instead of being retried
MissingInputFatal(c) ==
    /\ exec[c].pc = "work"
    /\ LET task == TASKS[exec[c].idx]
       IN  /\ MissingParam(task, exec[c].chain_data) # None
           /\ missCalls' = Bump(missCalls, c, task.name)
           /\ chains' = fail_chain(chains, c, ErrorMsg(task, exec[c].attempts),
                                   task.name, now)
           /\ exec' = [exec EXCEPT ![c] =
                        AfterTask(@, [status |-> "N", task |-> task.name,
                                      attempts |-> exec[c].attempts])]
    /\ UNCHANGED <<now, held, observed, workCalls, okCalls, cbCalls>>

\* where execute_task goes after a work call that did not succeed: 'N' always
\* sleeps, a raise or a malformed result goes through the except block
FailPc(outcome, attempts, max_attempts) ==
    IF outcome = "N" THEN "sleepN" ELSE ExceptPc(attempts, max_attempts)

\* the try block: a required parameter is not in ChainData, func is not called
MissingInput(c) ==
    /\ exec[c].pc = "work"
    /\ LET task == TASKS[exec[c].idx]
       IN  /\ MissingParam(task, exec[c].chain_data) # None
           /\ missCalls' = Bump(missCalls, c, task.name)
           /\ exec' = [exec EXCEPT ![c].pc =
                        ExceptPc(exec[c].attempts, task.max_attempts)]
    /\ UNCHANGED <<now, chains, held, observed, workCalls, okCalls, cbCalls>>

\* task.func is called and does not return success
WorkFails(c, outcome) ==
    /\ exec[c].pc = "work"
    /\ outcome \in {"N", "Raise", "Malformed"}
    /\ LET task == TASKS[exec[c].idx]
       IN  /\ outcome \in OutcomesOf(task)
           /\ MissingParam(task, exec[c].chain_data) = None
           /\ workCalls' = Bump(workCalls, c, task.name)
           /\ exec' = [exec EXCEPT ![c].pc =
                        FailPc(outcome, exec[c].attempts, task.max_attempts)]
    /\ UNCHANGED <<now, chains, held, observed, missCalls, okCalls, cbCalls>>

\* task.func is called and returns success: chain_data.set, complete_task
WorkSucceeds(c, outcome) ==
    /\ exec[c].pc = "work"
    /\ outcome \in {"Y", "YData", "YNone"}
    /\ LET task == TASKS[exec[c].idx]
           e == exec[c]
           data1 == IF outcome = "YData"
                    THEN ChainDataSet(e.chain_data, task.name, ProjectNumber)
                    ELSE e.chain_data
           rd == ResultDict(task, e.attempts, outcome, e.chain_data)
           e1 == [e EXCEPT !.chain_data = data1, !.result_dict = rd]
       IN  /\ outcome \in OutcomesOf(task)
           /\ MissingParam(task, e.chain_data) = None
           /\ workCalls' = Bump(workCalls, c, task.name)
           /\ okCalls' = Bump(okCalls, c, task.name)
           /\ chains' = complete_task(chains, c, task.name, TrackedResult(outcome), now)
           /\ exec' = [exec EXCEPT ![c] =
                        IF task.on_complete
                        THEN [e1 EXCEPT !.pc = "callback"]
                        ELSE AfterTask(e1, rd)]
    /\ UNCHANGED <<now, held, observed, missCalls, cbCalls>>

\* task.on_complete(result_dict) returns; execute_task returns result_dict
CallbackReturns(c) ==
    /\ exec[c].pc = "callback"
    /\ cbCalls' = Bump(cbCalls, c, TASKS[exec[c].idx].name)
    /\ exec' = [exec EXCEPT ![c] = AfterTask(@, @.result_dict)]
    /\ UNCHANGED <<now, chains, held, observed, workCalls, missCalls, okCalls>>

\* task.on_complete(result_dict) raises inside the try block
CallbackRaises(c) ==
    /\ exec[c].pc = "callback"
    /\ cbCalls' = Bump(cbCalls, c, TASKS[exec[c].idx].name)
    /\ exec' = [exec EXCEPT ![c].result_dict = None,
                            ![c].pc = ExceptPc(exec[c].attempts,
                                               TASKS[exec[c].idx].max_attempts)]
    /\ UNCHANGED <<now, chains, held, observed, workCalls, missCalls, okCalls>>

\* asyncio.sleep(task.retry_interval) returns
Wake(c) ==
    /\ exec[c].pc \in {"sleepN", "sleepE"}
    /\ exec' = [exec EXCEPT ![c].pc = "loop"]
    /\ UNCHANGED <<now, chains, held, hist>>

\* a client calls get_chain_status and keeps what it returned
GetChainStatus(c) ==
    /\ held = NoneHeld
    /\ held' = Returned(chains, c)
    /\ UNCHANGED <<now, chains, exec, hist>>

\* a client calls get_active_chains and keeps the dict it returned: its keys,
\* the values being the stored dicts themselves
GetActiveChains ==
    /\ held = NoneHeld
    /\ held' = [kind |-> "active", ids |-> DOMAIN get_active_chains(chains)]
    /\ UNCHANGED <<now, chains, exec, hist>>

\* the client lets go of what it holds
Release ==
    /\ held # NoneHeld
    /\ held' = NoneHeld
    /\ UNCHANGED <<now, chains, exec, hist>>

\* time passes
Tick ==
    /\ now < MaxTime
    /\ now' = now + 1
    /\ UNCHANGED <<chains, exec, held, hist>>

\* ---------------------------------------------- the registry called directly
\* Any caller of ChainTracker: the chain ids it uses are registered or not,
\* the task names are those of the sequence, in any order and at any time.
CallStartChain(c) ==
    /\ c = Observed
    /\ c \notin DOMAIN chains
    /\ chains' = start_chain(chains, c, TaskSequence, now)
    /\ UNCHANGED <<now, exec, held, hist>>

\* at most MaxAttempts attempts are recorded, over all tasks
CallUpdateAttempts(c, t) ==
    /\ \A id \in DOMAIN chains :
         SumOf(chains[id].attempts, DOMAIN chains[id].attempts) < MaxAttempts
    /\ chains' = update_attempts(chains, c, t)
    /\ UNCHANGED <<now, exec, held, hist>>

CallCompleteTask(c, t) ==
    /\ chains' = complete_task(chains, c, t, [status |-> "Y"], now)
    /\ UNCHANGED <<now, exec, held, hist>>

CallFailChain(c, t) ==
    /\ chains' = fail_chain(chains, c,
                    ErrorMsg(TASKS[IndexOf(t)],
                             Get(Get(chains, c, [attempts |-> EmptyDict]).attempts, t, 0)),
                    t, now)
    /\ UNCHANGED <<now, exec, held, hist>>

\* ------------------------------------------------------- the chain deadline
\* The deadline of a chain elapses while its execute_chain is running: the
\* pending suspension is cancelled and fail_chain is called with a timeout
\* error naming the task that was active.
TimeoutMsg(task) == <<"Chain timed out at task", task.name>>

DeadlineExpires(c) ==
    /\ exec[c].pc \in {"loop", "work", "callback", "sleepN", "sleepE"}
    /\ chains' = fail_chain(chains, c, TimeoutMsg(TASKS[exec[c].idx]),
                            TASKS[exec[c].idx].name, now)
    /\ exec' = [exec EXCEPT ![c].pc = "cancelled", ![c].result_dict = None]
    /\ UNCHANGED <<now, held, hist>>

\* ------------------------------------------------------------ specifications
InitState ==
    /\ now = 0
    /\ chains = EmptyDict
    /\ exec = [c \in ChainIds |-> IdleExec]
    /\ held = NoneHeld
    /\ workCalls = [t \in TaskNames |-> 0]
    /\ missCalls = [t \in TaskNames |-> 0]
    /\ okCalls = [t \in TaskNames |-> 0]
    /\ cbCalls = [t \in TaskNames |-> 0]

\* the engine: chains are triggered and their executors run interleaved;
\* the history of chain Observed is recorded
Init == InitState /\ observed = Observed

Next ==
    \/ \E c \in ChainIds : StartChain(c)
    \/ \E c \in ChainIds : BeginAttempt(c)
    \/ \E c \in ChainIds : Exhaust(c)
    \/ \E c \in ChainIds : MissingInput(c)
    \/ \E c \in ChainIds, o \in WorkOutcomes : WorkFails(c, o)
    \/ \E c \in ChainIds, o \in WorkOutcomes : WorkSucceeds(c, o)
    \/ \E c \in ChainIds : CallbackReturns(c)
    \/ \E c \in ChainIds : CallbackRaises(c)
    \/ \E c \in ChainIds : Wake(c)

Spec == Init /\ [][Next]_vars

\* no history is recorded
InitRead == InitState /\ observed = None

\* the chain id the client asks about
Queried == "c1"

\* the engine with a client reading chain status while it runs
NextRead ==
    \/ Next
    \/ \E c \in {Queried} : GetChainStatus(c)
    \/ Release

SpecRead == InitRead /\ [][NextRead]_vars

\* the registry alone, called directly by any caller, while time passes
NextTracker ==
    \/ \E c \in ChainIds : CallStartChain(c)
    \/ \E c \in ChainIds, t \in TaskNames : CallUpdateAttempts(c, t)
    \/ \E c \in ChainIds, t \in TaskNames : CallCompleteTask(c, t)
    \/ \E c \in ChainIds, t \in TaskNames : CallFailChain(c, t)
    \/ Tick

SpecTracker == InitRead /\ [][NextTracker]_vars

\* a step of the executor of chain c
ExecutorStep(c) ==
    \/ BeginAttempt(c)
    \/ Exhaust(c)
    \/ MissingInput(c)
    \/ \E o \in WorkOutcomes : WorkFails(c, o)
    \/ \E o \in WorkOutcomes : WorkSucceeds(c, o)
    \/ CallbackReturns(c)
    \/ CallbackRaises(c)
    \/ Wake(c)

\* a chain whose ChainedTasks was built with an empty task list: start_chain
\* registers it, the loop of execute_chain has no task to run and
\* execute_chain returns the empty result list
StartEmptyChain(c) ==
    /\ c \notin DOMAIN chains
    /\ exec[c].pc = "idle"
    /\ chains' = start_chain(chains, c, <<>>, now)
    /\ exec' = [exec EXCEPT ![c].pc = "done"]
    /\ UNCHANGED <<now, held, hist>>

\* the engine with task lists that may be empty; every delay and every work
\* call returns, so an executor that can take a step eventually takes one
NextLists ==
    \/ Next
    \/ \E c \in ChainIds : StartEmptyChain(c)

SpecLists ==
    /\ InitRead
    /\ [][NextLists]_vars
    /\ \A c \in ChainIds : WF_vars(ExecutorStep(c))

\* the engine and a client listing the active chains; the listing is looked at
\* as it was returned, before the engine moves on
NextActive ==
    \/ held = NoneHeld /\ Next
    \/ GetActiveChains
    \/ Release

SpecActive == InitRead /\ [][NextActive]_vars

\* the engine with a chain deadline configured
NextDeadline ==
    \/ Next
    \/ \E c \in ChainIds : DeadlineExpires(c)

SpecDeadline == InitRead /\ [][NextDeadline]_vars

\* ================================================================= properties
Registered == DOMAIN chains
Keys(c) == OrderedKeys(chains[c].completed_tasks)
Attempts(c, t) == Get(chains[c].attempts, t, 0)
Terminal(rec) == Has(rec, "end_time")

\* C1: in every reachable state, every chain record has no more completed
\* tasks than tasks, and the keys of completed_tasks, in insertion order, are
\* the first len(completed_tasks) entries of task_sequence.
C1_CompletedIsPrefix ==
    \A c \in Registered :
        /\ Len(Keys(c)) <= Len(chains[c].task_sequence)
        /\ Keys(c) = SubSeq(chains[c].task_sequence, 1, Len(Keys(c)))

\* two executors interleaved, both part-way, one of them past a retry of a
\* task it had already completed
C1_Witness ==
    /\ Registered = ChainIds
    /\ Len(Keys("c1")) = 2
    /\ Len(Keys("c2")) = 1
    /\ exec["c2"].pc = "sleepN"
    /\ cbCalls["project_lookup"] = 2

\* C2: a call of fail_chain or complete_task (or any other call of the
\* registry) on a record that has an end_time leaves its status, error and
\* end_time as they were.
C2_TerminalSticky ==
    [][\A c \in Registered :
          Terminal(chains[c]) =>
            /\ chains'[c].status = chains[c].status
            /\ Get(chains'[c], "error", None) = Get(chains[c], "error", None)
            /\ chains'[c].end_time = chains[c].end_time]_vars

\* C3: driven by execute_chain, a record that has an end_time never changes
\* again in any field, and a status other than running never changes.
C3_TerminalNeverMutates ==
    [][\A c \in Registered :
          /\ Terminal(chains[c]) => chains'[c] = chains[c]
          /\ chains[c].status # "running" => chains'[c].status = chains[c].status]_vars

\* the attempt of task t that has been counted and has not yet reached its
\* work call or its missing parameter
InFlight(t) ==
    IF exec[observed].pc = "work" /\ TASKS[exec[observed].idx].name = t
    THEN 1 ELSE 0

\* C4 as stated: whenever no attempt is between its count and its work call,
\* attempts[task] is the number of calls of the task's work function.
C4_AttemptsEqualWorkCalls ==
    (observed \in Registered /\ exec[observed].pc # "work") =>
        \A t \in TaskNames : Attempts(observed, t) = workCalls[t]

\* C4 as amended: attempts[task] never decreases and is the number of attempts
\* begun: the calls of the work function, plus the attempts that ended at a
\* missing required parameter without a call, plus the attempt now begun.
C4_AttemptsCountAttemptsBegun ==
    /\ [](observed \in Registered =>
            \A t \in TaskNames :
                Attempts(observed, t) = workCalls[t] + missCalls[t] + InFlight(t))
    /\ [][\A c \in Registered : \A t \in TaskNames :
            Get(chains'[c].attempts, t, 0) >= Attempts(c, t)]_vars

\* a task whose required parameter was never stored used its whole ceiling
\* without one call of its work function
C4_Witness ==
    /\ observed \in Registered
    /\ missCalls["vpc_sc_lookup"] = MaxAttempts
    /\ workCalls["vpc_sc_lookup"] = 0
    /\ Attempts(observed, "vpc_sc_lookup") = MaxAttempts
    /\ workCalls["project_lookup"] = 1

\* C5: when execute_chain has returned and task k used its whole ceiling
\* without ever succeeding, the chain is failed with failed_task = k,
\* completed_tasks holds exactly the tasks before k, and no task after k has
\* an attempt count or a work call.
C5_FailureShortCircuit ==
    \A k \in 1..Len(TASKS) :
        LET t == TASKS[k].name IN
        ( /\ observed \in Registered
          /\ exec[observed].pc = "done"
          /\ okCalls[t] = 0
          /\ workCalls[t] + missCalls[t] = TASKS[k].max_attempts )
        => /\ chains[observed].status = "failed"
           /\ chains[observed].failed_task = t
           /\ Keys(observed) = SubSeq(TaskSequence, 1, k - 1)
           /\ \A j \in (k + 1)..Len(TASKS) :
                /\ ~Has(chains[observed].attempts, TASKS[j].name)
                /\ workCalls[TASKS[j].name] = 0
                /\ missCalls[TASKS[j].name] = 0

\* the second task called its work MaxAttempts times and never succeeded
C5_Witness ==
    /\ observed \in Registered
    /\ exec[observed].pc = "done"
    /\ okCalls["vpc_sc_lookup"] = 0
    /\ workCalls["vpc_sc_lookup"] = MaxAttempts
    /\ chains[observed].failed_task = "vpc_sc_lookup"
    /\ Keys(observed) = <<"project_lookup">>

\* attempts[t] is the attempt on which t first succeeded: t succeeded once,
\* and no attempt was counted after the one recorded at its completion
AttemptsAreFirstSuccess(t) ==
    /\ okCalls[t] = 1
    /\ \E i \in 1..Len(chains[observed].completed_tasks) :
         /\ chains[observed].completed_tasks[i][1] = t
         /\ chains[observed].completed_tasks[i][2].attempts = Attempts(observed, t)

\* C6: when execute_chain has returned and every task succeeded on some
\* attempt, the chain is completed, attempts[t] is the attempt of t's first
\* success for every task, and completed_tasks is in task_sequence order.
C6_AllSucceedCompletes ==
    ( /\ observed \in Registered
      /\ exec[observed].pc = "done"
      /\ \A t \in TaskNames : okCalls[t] > 0 )
    => /\ chains[observed].status = "completed"
       /\ \A t \in TaskNames : AttemptsAreFirstSuccess(t)
       /\ Keys(observed) = TaskSequence

C8_ReadsConsistent ==
    held.kind = "dict" =>
        LET r == View(held) IN
        /\ Len(r.completed_tasks) <= r.total_tasks
        /\ ~(r.status = "running" /\ Has(r, "end_time"))
        /\ (r.status \in {"completed", "failed"} => Has(r, "end_time"))

\* a read of a failed chain while the other chain is part-way
C8_Witness ==
    /\ held.kind = "dict"
    /\ View(held).status = "failed"
    /\ \E c \in Registered \ {held.id} :
         /\ chains[c].status = "running"
         /\ Len(chains[c].completed_tasks) = 2
         /\ exec[c].pc = "callback"

\* C9: while a client holds a status value, the value does not change.
C9_SnapshotImmutable ==
    [][(held.kind = "dict" /\ held' = held) =>
          chains'[held.id] = chains[held.id]]_vars

\* C10: on_complete of a task is called at most once per chain, and only
\* after the task's work function returned success.
C10_OnCompleteAtMostOnce ==
    \A t \in TaskNames :
        /\ cbCalls[t] <= 1
        /\ cbCalls[t] > 0 => okCalls[t] > 0

\* C11: execute_chain never ends by raising, whatever faults its attempts
\* met, and a chain is failed only when the failed task's attempt count has
\* reached its ceiling.
C11_FaultsAbsorbed ==
    \A c \in ChainIds :
        /\ exec[c].pc # "raised"
        /\ (c \in Registered /\ chains[c].status = "failed") =>
             /\ exec[c].pc = "done"
             /\ Attempts(c, chains[c].failed_task)
                  = TASKS[IndexOf(chains[c].failed_task)].max_attempts

\* execute_chain returned after a failed work call of the first task, a
\* success of it without data, and a missing input on every attempt of the
\* second task
C11_Witness ==
    /\ observed \in Registered
    /\ exec[observed].pc = "done"
    /\ workCalls["project_lookup"] = 2
    /\ okCalls["project_lookup"] = 1
    /\ missCalls["vpc_sc_lookup"] = MaxAttempts
    /\ chains[observed].status = "failed"

\* C12: a task that met a missing required parameter has spent one attempt of
\* its budget on each such attempt and made no work call; its chain stays
\* running until the budget is spent, and is then failed at that task with
\* attempts_at_failure equal to max_attempts.
C12_MissingInputRetried ==
    \A t \in TaskNames :
        missCalls[t] > 0 =>
            LET max == TASKS[IndexOf(t)].max_attempts
                rec == chains[observed]
            IN  /\ workCalls[t] = 0
                /\ Attempts(observed, t) = missCalls[t] + InFlight(t)
                /\ Attempts(observed, t) <= max
                /\ IF exec[observed].pc = "done"
                   THEN /\ rec.status = "failed"
                        /\ rec.failed_task = t
                        /\ rec.attempts_at_failure = max
                        /\ missCalls[t] = max
                   ELSE rec.status = "running"

\* the second task was retried after its first missing input and its chain
\* is still running
C12_Witness ==
    /\ observed \in Registered
    /\ missCalls["vpc_sc_lookup"] = 1
    /\ exec[observed].pc = "work"
    /\ exec[observed].attempts = 2
    /\ chains[observed].status = "running"

\* C13: a status query returns None, and the endpoint answers 404, exactly
\* when the id asked for is not registered at the time of the call; the query
\* leaves the registry as it was.
C13_UnknownIdNotFound ==
    [][(held = NoneHeld /\ held' # NoneHeld /\ Has(held', "id")) =>
          /\ (held'.kind = None) <=> (held'.id \notin Registered)
          /\ held'.kind # None => held'.kind = "dict"
          /\ Has(check_chain_status(chains, held'.id), "code")
               <=> (held'.id \notin Registered)
          /\ chains' = chains]_vars

\* a query for an id that was never registered, made while another chain is
\* registered
C13_Witness ==
    /\ held.kind = None
    /\ held.id \notin Registered
    /\ Registered # {}
    /\ check_chain_status(chains, held.id).code = NotFound

\* C14: every status read carries a progress value equal to
\* 100 * len(completed_tasks) / total_tasks.
C14_ProgressReported ==
    held.kind = "dict" =>
        LET r == View(held) IN
        /\ Has(r, "progress")
        /\ r.progress * r.total_tasks = 100 * Len(r.completed_tasks)

\* C15: when execute_chain has returned, its result list holds one success
\* record per task before the first failing task, in chain order; it is as
\* long as completed_tasks of the record, and holds every task when the chain
\* completed.
C15_ResultsAreCompletedPrefix ==
    \A c \in Registered :
        exec[c].pc = "done" =>
            LET results == exec[c].results
                rec == chains[c]
            IN  /\ \A i \in 1..Len(results) :
                     /\ results[i].status = "Y"
                     /\ results[i].task = TaskSequence[i]
                /\ Len(results) = Len(rec.completed_tasks)
                /\ rec.status = "failed" =>
                     Len(results) = IndexOf(rec.failed_task) - 1
                /\ rec.status = "completed" => Len(results) = Len(TASKS)

\* C16: a call of get_active_chains returns the registered chains whose status
\* is running when it is called, which are the chains without an end_time, and
\* leaves the registry as it was.
C16_ActiveIsRunning ==
    [][(held = NoneHeld /\ held'.kind = "active") =>
          /\ held'.ids = {c \in Registered : chains[c].status = "running"}
          /\ \A c \in Registered : c \in held'.ids <=> ~Terminal(chains[c])
          /\ chains' = chains]_vars

\* a listing that holds the running chain alone, the other chain being
\* registered and completed
C16_Witness ==
    /\ held.kind = "active"
    /\ \E a, b \in Registered :
         /\ held.ids = {a}
         /\ chains[a].status = "running"
         /\ chains[b].status = "completed"

\* task t is in completed_tasks of chain c
Done(c, t) == OrderedHas(chains[c].completed_tasks, t)

\* C17: in every chain at most one task has attempts begun without being
\* completed, a task has attempts only when every task before it is in
\* completed_tasks, and the attempt in flight is the latest counted attempt of
\* the executor's current task.
C17_StrictlySequential ==
    \A c \in Registered :
        /\ Cardinality({t \in TaskNames :
                          Has(chains[c].attempts, t) /\ ~Done(c, t)}) <= 1
        /\ \A k \in 1..Len(TaskSequence) :
             Has(chains[c].attempts, TaskSequence[k]) =>
                 \A j \in 1..(k - 1) : Done(c, TaskSequence[j])
        /\ exec[c].pc \in {"work", "callback"} =>
             /\ \A j \in 1..(exec[c].idx - 1) : Done(c, TaskSequence[j])
             /\ Attempts(c, TaskSequence[exec[c].idx]) = exec[c].attempts

\* two chains with an attempt in flight each, of the third and of the second
\* task
C17_Witness ==
    /\ Registered = ChainIds
    /\ \E a, b \in ChainIds :
         /\ exec[a].pc = "work" /\ exec[a].idx = 3
         /\ exec[b].pc = "work" /\ exec[b].idx = 2
         /\ Keys(a) = <<TaskSequence[1], TaskSequence[2]>>

\* C18: a step that changes the executor of one chain leaves the record, the
\* ChainData and the executor of every other chain as they were, and an
\* executor that has not returned can take a step whatever state the other
\* chains are in.
C18_ChainsIndependent ==
    /\ [][\A a, b \in ChainIds :
            (a # b /\ exec'[a] # exec[a]) =>
                /\ exec'[b] = exec[b]
                /\ (b \in Registered) = (b \in DOMAIN chains')
                /\ b \in Registered => chains'[b] = chains[b]]_vars
    /\ [](\A b \in ChainIds :
            exec[b].pc \notin {"idle", "done"} => ENABLED ExecutorStep(b))

\* one chain has failed and the other has completed after it
C18_Witness ==
    \E a, b \in Registered :
        /\ chains[a].status = "failed"
        /\ exec[a].pc = "done"
        /\ chains[b].status = "completed"
        /\ exec[b].pc = "done"
        /\ Len(exec[b].results) = Len(TASKS)

\* C19: a chain whose executor exists is registered; when the trigger returns
\* the record is there with status running and no attempt recorded, and the
\* executor has not yet taken a step; a registered chain stays registered, and
\* a status query answers None only for an id whose trigger has not run.
C19_RegisteredBeforeLaunch ==
    /\ [](\A c \in ChainIds : exec[c].pc # "idle" => c \in Registered)
    /\ [][\A c \in ChainIds :
            (exec[c].pc = "idle" /\ exec'[c].pc # "idle") =>
                /\ c \in DOMAIN chains'
                /\ chains'[c].status = "running"
                /\ chains'[c].attempts = EmptyDict
                /\ exec'[c].pc = "loop"
                /\ exec'[c].attempts = 0]_vars
    /\ [][\A c \in Registered : c \in DOMAIN chains']_vars
    /\ [][(held = NoneHeld /\ held'.kind = None) =>
            exec[held'.id].pc = "idle"]_vars

\* a status query made after the trigger returned and before the first
\* attempt: it holds the record, running, without attempts
C19_Witness ==
    /\ held.kind = "dict"
    /\ exec[held.id].pc = "loop"
    /\ exec[held.id].attempts = 0
    /\ exec[held.id].idx = 1
    /\ View(held).status = "running"
    /\ View(held).attempts = EmptyDict

\* execute_task waits retry_interval before its next step
Delayed(pc) == pc \in {"sleepN", "sleepE"}

\* C20: at every work call, on the last attempt as on the others, a raise and
\* a 'not yet' are followed by the same steps: both wait the retry interval,
\* or neither does.
C20_RaiseLikeNotYet ==
    \A c \in ChainIds :
        (/\ exec[c].pc = "work"
         /\ MissingParam(TASKS[exec[c].idx], exec[c].chain_data) = None) =>
            LET max == TASKS[exec[c].idx].max_attempts
            IN  Delayed(FailPc("Raise", exec[c].attempts, max))
                  = Delayed(FailPc("N", exec[c].attempts, max))

\* C21: in every chain record the attempt count of every task is at most the
\* task's max_attempts, and a failed record's attempts_at_failure is the
\* attempt count of its failed task, which is that task's max_attempts.
C21_AttemptsWithinCeiling ==
    \A c \in Registered :
        /\ \A t \in DOMAIN chains[c].attempts :
             /\ t \in TaskNames
             /\ chains[c].attempts[t] >= 1
             /\ chains[c].attempts[t] <= TASKS[IndexOf(t)].max_attempts
        /\ chains[c].status = "failed" =>
             LET t == chains[c].failed_task
             IN  /\ chains[c].attempts_at_failure = Attempts(c, t)
                 /\ chains[c].attempts_at_failure
                      = TASKS[IndexOf(t)].max_attempts

\* a chain failed on its last task with every task at its ceiling
C21_Witness ==
    \E c \in Registered :
        /\ chains[c].status = "failed"
        /\ chains[c].failed_task = TaskSequence[Len(TaskSequence)]
        /\ chains[c].attempts_at_failure = MaxAttempts
        /\ \A t \in TaskNames : Attempts(c, t) = MaxAttempts

\* C22: every registered chain eventually has status completed or failed,
\* whatever its task list and whatever its work functions do, and a record is
\* completed exactly when every task of its task_sequence is in
\* completed_tasks.
C22_EveryChainTerminates ==
    /\ \A c \in ChainIds :
         (c \in Registered) ~>
             (c \in Registered /\ chains[c].status \in {"completed", "failed"})
    /\ [](\A c \in Registered :
            (chains[c].status = "completed") <=>
                \A i \in 1..Len(chains[c].task_sequence) :
                    Done(c, chains[c].task_sequence[i]))

\* C23: in every state of the registry, update_attempts, complete_task and
\* fail_chain given a chain id that is not registered return the registry as
\* it is; a record comes into being only as the fresh running record of
\* start_chain.
C23_UnknownIdNoOp ==
    /\ [](\A c \in ChainIds \ Registered, t \in TaskNames :
            /\ update_attempts(chains, c, t) = chains
            /\ complete_task(chains, c, t, [status |-> "Y"], now) = chains
            /\ fail_chain(chains, c, ErrorMsg(TASKS[IndexOf(t)], 0), t, now)
                 = chains)
    /\ [][\A c \in ChainIds :
            (c \notin Registered /\ c \in DOMAIN chains') =>
                /\ chains'[c] = start_chain(chains, c, TaskSequence, now)[c]
                /\ \A x \in Registered : chains'[x] = chains[x]]_vars

\* the registry holds one chain, failed after a completed task, and the
\* other chain id is unknown to it: the three calls with that id change
\* nothing
C23_Witness ==
    /\ Registered = {Observed}
    /\ chains[Observed].status = "failed"
    /\ Len(chains[Observed].completed_tasks) = 1
    /\ Attempts(Observed, chains[Observed].failed_task) > 0
    /\ \E c \in ChainIds \ Registered, t \in TaskNames :
         /\ update_attempts(chains, c, t) = chains
         /\ complete_task(chains, c, t, [status |-> "Y"], now) = chains
         /\ fail_chain(chains, c, ErrorMsg(TASKS[IndexOf(t)], 0), t, now)
              = chains

====
